---- MODULE Spec2Model ----
(***************************************************************************)
(* Mini PM backend (src/backend/server.py): the authorization-scoped       *)
(* GraphQL handlers over the document store and the in-process             *)
(* SubscriptionManager.  Every handler is a coroutine: each `await db...`  *)
(* is one step (the store applies the operation), and the synchronous code *)
(* that follows the last await (broadcast, return) is the handler's last   *)
(* step.  Requests run concurrently in Slots.                              *)
(***************************************************************************)
EXTENDS Integers, Sequences, FiniteSets, TLC

\* ------------------------------------------------------------------ bounds
MaxRequests == 2
MaxProjects == 2
MaxTasks == 2
MaxComments == 2
MaxSubs == 1
NumSlots == 2

Slots == 1..NumSlots

\* ------------------------------------------------------------- the state
VARIABLES
  users,          \* db.users, in insertion order
  organizations,  \* db.organizations
  projects,       \* db.projects
  tasks,          \* db.tasks
  task_comments,  \* db.task_comments
  connections,    \* subscription_manager.connections: org_id -> list of queues
  queues,         \* the asyncio.Queue objects: queue id -> pending events
  subs,           \* the organization_events generators, by queue id
  req,            \* the requests in flight: slot -> handler frame
  last,           \* the frame of the request that completed last
  nStarted,       \* requests started so far
  nIds,           \* ids generated so far, per kind
  nApplied,       \* history: store changes applied so far
  parentOf,       \* history: entity id -> the parent id it was inserted with
  hubCall         \* the last direct call of a SubscriptionManager method

vars == <<users, organizations, projects, tasks, task_comments, connections,
          queues, subs, req, last, nStarted, nIds, nApplied, parentOf, hubCall>>

store == <<users, organizations, projects, tasks, task_comments>>
hub == <<connections, queues>>

\* ------------------------------------------------------------ identifiers
IdNames == <<"1", "2", "3", "4", "5", "6">>

\* uuid4: a fresh id; n is the count of ids of that kind generated before
generate_id(kind, n) == kind \o IdNames[n + 1]

None == [none |-> TRUE]
Null == "<None>"
BogusId == "zz"

UserA == [id |-> "u1", email |-> "a@x.com"]
UserB == [id |-> "u2", email |-> "b@x.com"]
OrgA == [id |-> "o1", user_id |-> "u1", slug |-> "acme-co"]
OrgB == [id |-> "o2", user_id |-> "u2", slug |-> "beta-co"]

\* --------------------------------------------------------- entity store
Matches(d, filter) == \A k \in DOMAIN filter : d[k] = filter[k]

find(coll, filter) == {d \in coll : Matches(d, filter)}

find_one(coll, filter) ==
  IF find(coll, filter) = {} THEN None ELSE CHOOSE d \in find(coll, filter) : TRUE

find_in(coll, field, values) == {d \in coll : d[field] \in values}

count_documents(coll, filter) == Cardinality(find(coll, filter))

to_list(docs, n) ==
  IF Cardinality(docs) <= n THEN docs
  ELSE CHOOSE T \in SUBSET docs : Cardinality(T) = n

delete_many(coll, gone) == coll \ gone

delete_one(coll, filter) ==
  IF find(coll, filter) = {} THEN coll ELSE coll \ {find_one(coll, filter)}

\* the length limits of the handlers' to_list calls
ToListProjects == 100
ToListTasks == 1000

update_one_replace(coll, filter, patch) ==
  IF find(coll, filter) = {} THEN coll
  ELSE LET d == find_one(coll, filter)
       IN (coll \ {d}) \cup
          {[k \in DOMAIN d |-> IF k \in DOMAIN patch THEN patch[k]
                               ELSE IF k = "id" THEN d[k] ELSE Null]}

update_one(coll, filter, patch) ==
  IF find(coll, filter) = {} THEN coll
  ELSE LET d == find_one(coll, filter)
       IN (coll \ {d}) \cup
          {[k \in DOMAIN d |-> IF k \in DOMAIN patch THEN patch[k] ELSE d[k]]}

\* -------------------------------------------------- SubscriptionManager
put_front(q, event) == <<event>> \o q

put(q, event) == Append(q, event)

RECURSIVE PutAll(_, _, _)
PutAll(qs, list, event) ==
  IF list = <<>> THEN qs
  ELSE PutAll([qs EXCEPT ![Head(list)] = put(@, event)], Tail(list), event)

broadcast_all(conns, qs, org_id, event) ==
  [queue \in DOMAIN qs |-> put(qs[queue], event)]

broadcast_unregistered(conns, qs, org_id, event) ==
  IF org_id \in DOMAIN conns /\ conns[org_id] # <<>>
  THEN PutAll(qs, conns[org_id], event)
  ELSE [queue \in DOMAIN qs |-> put(qs[queue], event)]

broadcast(conns, qs, org_id, event) ==
  IF org_id \in DOMAIN conns THEN PutAll(qs, conns[org_id], event) ELSE qs

subscribe_twice(conns, org_id, queue) ==
  IF org_id \in DOMAIN conns
  THEN [conns EXCEPT ![org_id] = Append(Append(@, queue), queue)]
  ELSE conns @@ (org_id :> <<queue, queue>>)

subscribe(conns, org_id, queue) ==
  IF org_id \in DOMAIN conns
  THEN [conns EXCEPT ![org_id] = Append(@, queue)]
  ELSE conns @@ (org_id :> <<queue>>)

RECURSIVE ListRemove(_, _)
ListRemove(list, x) ==
  IF list = <<>> THEN <<>>
  ELSE IF Head(list) = x THEN Tail(list)
  ELSE <<Head(list)>> \o ListRemove(Tail(list), x)

InList(list, x) == \E i \in DOMAIN list : list[i] = x

\* list.remove raises ValueError when x is not in the list
unsubscribe(conns, org_id, queue) ==
  IF org_id \in DOMAIN conns
  THEN IF InList(conns[org_id], queue)
       THEN [raised |-> "", connections |-> [conns EXCEPT ![org_id] = ListRemove(@, queue)]]
       ELSE [raised |-> "ValueError", connections |-> conns]
  ELSE [raised |-> "", connections |-> conns]

Registered(conns, org_id) ==
  IF org_id \in DOMAIN conns THEN {conns[org_id][i] : i \in DOMAIN conns[org_id]} ELSE {}

AllRegistered(conns) == UNION {Registered(conns, o) : o \in DOMAIN conns}

\* ------------------------------------------------------- ownership chain
\* The organization at the root of an entity's chain in the store now, ""
\* when some link does not resolve.
RootOfOrganization(id) ==
  IF find_one(organizations, [id |-> id]) = None THEN "" ELSE id

RootOfProject(id) ==
  LET proj == find_one(projects, [id |-> id])
  IN IF proj = None THEN "" ELSE RootOfOrganization(proj.organization_id)

RootOfTask(id) ==
  LET task == find_one(tasks, [id |-> id])
  IN IF task = None THEN "" ELSE RootOfProject(task.project_id)

RootOfComment(id) ==
  LET comment == find_one(task_comments, [id |-> id])
  IN IF comment = None THEN "" ELSE RootOfTask(comment.task_id)

Owner(org_id) == find_one(organizations, [id |-> org_id]).user_id

\* --------------------------------------------------------------- inputs

GeneratedIds(kind) == {generate_id(kind, k) : k \in 0..(nIds[kind] - 1)}
OrgArgs == {o.id : o \in organizations} \cup {BogusId}
ProjectArgs == GeneratedIds("p") \cup {BogusId}
TaskArgs == GeneratedIds("t") \cup {BogusId}
CommentArgs == GeneratedIds("c") \cup {BogusId}

ProjectInputs ==
  [name : {"n1"}, description : {""}, status : {"ACTIVE"}, due_date : {Null}]
ProjectUpdateInputs ==
  [name : {Null}, description : {Null}, status : {Null, "COMPLETED"}, due_date : {Null}]
TaskInputs ==
  [title : {"t1"}, description : {""}, status : {"TODO"}, assignee_email : {""},
   due_date : {Null}]
TaskUpdateInputs ==
  [title : {Null}, description : {Null}, status : {Null, "DONE"},
   assignee_email : {Null}, due_date : {Null}]
TaskCommentInputs == [content : {"c1"}]
NoInput == [none |-> TRUE]

\* update inputs that give no field, one field, or every field
Giving(full) ==
  {[k \in DOMAIN full |-> IF k \in given THEN full[k] ELSE Null] :
     given \in {{}, DOMAIN full} \cup {{k} : k \in DOMAIN full}}
AnyProjectUpdateInputs ==
  Giving([name |-> "n2", description |-> "d2", status |-> "COMPLETED",
          due_date |-> "2027-01-01"])
AnyTaskUpdateInputs ==
  Giving([title |-> "t2", description |-> "d2", status |-> "DONE",
          assignee_email |-> "b@x.com", due_date |-> "2027-01-01"])

\* datetime.now(timezone.utc).isoformat(); instants are not told apart
Now == "now"

\* the update_data dict: the fields of the input that are not None
UpdateData(input) ==
  LET given == {k \in DOMAIN input : input[k] # Null}
  IN [k \in given |-> input[k]]

\* ------------------------------------------------------- handler frames
NoLoc == [org_id |-> "", project_id |-> "", new_id |-> "", ids |-> {},
          updated |-> None, n1 |-> 0, n2 |-> 0, doc |-> None, docs |-> {},
          result |-> {}, counts |-> <<>>]

Idle == [op |-> "idle", pc |-> "idle", caller |-> None, arg |-> "", inp |-> NoInput,
         loc |-> NoLoc, out |-> "", res |-> {},
         g |-> [serial |-> 0, ap |-> 0, root |-> "", subs |-> {},
                wrote |-> FALSE, pub |-> <<>>, dup |-> FALSE, to |-> {},
                token |-> [kind |-> "missing", sub |-> ""]]]

\* A frame at the start of a handler.  g is history: the request's serial
\* number, the time of its store change, the root organization of its target
\* when it started, the queues registered then, whether it changed the store,
\* the organizations it published to, whether a record with the unique key
\* it asks for existed when it started, the queues registered under the
\* organization of its broadcast when that was invoked, and the token the
\* request presented.
NewFrame(op, user, arg, input, root) ==
  [Idle EXCEPT !.op = op, !.pc = "start", !.caller = user, !.arg = arg, !.inp = input,
               !.g = [serial |-> nStarted + 1, ap |-> 0,
                      root |-> root, subs |-> AllRegistered(connections),
                      wrote |-> FALSE, pub |-> <<>>, dup |-> FALSE, to |-> {},
                      token |-> IF user = None
                                THEN [kind |-> "missing", sub |-> ""]
                                ELSE [kind |-> "valid", sub |-> user.email]]]

At(r, pc) == [r EXCEPT !.pc = pc]
Raise(r, message) == [r EXCEPT !.pc = "done", !.out = message, !.loc = NoLoc]
Return(r, result) == [r EXCEPT !.pc = "done", !.out = "OK", !.res = result, !.loc = NoLoc]
Wrote(r) == [r EXCEPT !.g.wrote = TRUE, !.g.ap = nApplied + 1]

\* the frame of slot s becomes r; a handler that has returned or raised
\* leaves its slot
Put(s, r) ==
  /\ req' = [req EXCEPT ![s] = IF r.pc = "done" THEN Idle ELSE r]
  /\ last' = IF r.pc = "done" THEN r ELSE last

\* requests enter the lowest free slot
FreeSlot(s) ==
  /\ req[s].pc = "idle"
  /\ \A t \in Slots : t < s => req[t].pc # "idle"

\* the first await of a handler: the request starts
Begin(s, r) ==
  /\ FreeSlot(s)
  /\ nStarted < MaxRequests
  /\ Put(s, r)
  /\ nStarted' = nStarted + 1
  /\ UNCHANGED <<store, hub, subs, nApplied, parentOf, hubCall>>

\* an await that reads the store
Read(s, r) ==
  /\ Put(s, r)
  /\ UNCHANGED <<store, hub, subs, nStarted, nIds, nApplied, parentOf, hubCall>>

\* an await that changes the store (the changed collection is primed by the caller)
Write(s, r) ==
  /\ Put(s, Wrote(r))
  /\ nApplied' = nApplied + 1
  /\ UNCHANGED <<hub, subs, nStarted, hubCall>>

\* requests that have started and not completed
InFlight == Cardinality({s \in Slots : req[s].pc # "idle"})

\* history of an event: the request that published it, the time of that
\* request's store change, the requests started and the queues created when
\* it was published, and the requests completed before (a broadcast is the
\* last step of its request, so this numbers the broadcasts in the order of
\* their invocation)
MkEvent(r, type, data) ==
  [type |-> type, data |-> data,
   g |-> [req |-> r.g.serial, ap |-> r.g.ap, fin |-> nStarted,
          nq |-> Cardinality(DOMAIN queues), ord |-> nStarted - InFlight]]

\* await subscription_manager.broadcast(...), then the handler's last statement
Publish(s, org_id, type, data, r) ==
  /\ queues' = broadcast(connections, queues, org_id, MkEvent(req[s], type, data))
  /\ Put(s, [r EXCEPT !.g.pub = Append(@, org_id),
                       !.g.to = Registered(connections, org_id)])
  /\ UNCHANGED <<store, connections, subs, nStarted, nIds, nApplied, parentOf, hubCall>>

Pc(s, op, pc) == req[s].op = op /\ req[s].pc = pc

\* in-flight creations that will still generate an id of this kind
Pending(op, pcs) == Cardinality({s \in Slots : req[s].op = op /\ req[s].pc \in pcs})

\* --------------------------------------------------------------- context
\* get_current_user: the first user document with the token's email
get_current_user(email) ==
  IF \E i \in DOMAIN users : users[i].email = email
  THEN users[CHOOSE i \in DOMAIN users :
               /\ users[i].email = email
               /\ \A j \in DOMAIN users : users[j].email = email => i <= j]
  ELSE None

\* get_context: the users a valid token resolves to
Callers == {get_current_user(users[i].email) : i \in DOMAIN users}

\* ------------------------------------------------ Mutation.create_project
ProjectDoc(id, organization_id, input) ==
  [id |-> id, organization_id |-> organization_id, name |-> input.name,
   description |-> input.description, status |-> input.status,
   due_date |-> input.due_date, created_at |-> Now]

create_project_find_org(s) ==
  /\ nIds["p"] < MaxProjects
  /\ \E user \in Callers, org_id \in OrgArgs, input \in ProjectInputs :
       LET r == NewFrame("create_project", user, org_id, input, RootOfOrganization(org_id))
           org == find_one(organizations, [id |-> org_id, user_id |-> user.id])
       IN IF org = None
          THEN Begin(s, Raise(r, "Organization not found")) /\ UNCHANGED nIds
          ELSE /\ Begin(s, [At(r, "insert_one") EXCEPT
                              !.loc.new_id = generate_id("p", nIds["p"])])
               /\ nIds' = [nIds EXCEPT !["p"] = @ + 1]

create_project_insert_one(s) ==
  /\ Pc(s, "create_project", "insert_one")
  /\ LET r == req[s]
     IN /\ projects' = projects \cup {ProjectDoc(r.loc.new_id, r.arg, r.inp)}
        /\ parentOf' = parentOf @@ (r.loc.new_id :> r.arg)
        /\ Write(s, At(r, "broadcast"))
  /\ UNCHANGED <<users, organizations, tasks, task_comments, nIds>>

create_project_broadcast(s) ==
  /\ Pc(s, "create_project", "broadcast")
  /\ LET r == req[s]
     IN Publish(s, r.arg, "PROJECT_CREATED", [id |-> r.loc.new_id],
                Return(r, {[kind |-> "Project", id |-> r.loc.new_id]}))

\* ------------------------------------------------ Mutation.update_project
update_project_request(s, inputs) ==
  /\ \E user \in Callers, id \in ProjectArgs, input \in inputs :
       LET r == NewFrame("update_project", user, id, input, RootOfProject(id))
           proj == find_one(projects, [id |-> id])
       IN IF proj = None
          THEN Begin(s, Raise(r, "Project not found"))
          ELSE Begin(s, [At(r, "find_org") EXCEPT !.loc.org_id = proj.organization_id])
  /\ UNCHANGED nIds

update_project_find_proj(s) == update_project_request(s, ProjectUpdateInputs)

update_project_find_org(s) ==
  /\ Pc(s, "update_project", "find_org")
  /\ LET r == req[s]
         org == find_one(organizations, [id |-> r.loc.org_id, user_id |-> r.caller.id])
     IN IF org = None
        THEN Read(s, Raise(r, "Access denied"))
        ELSE IF DOMAIN UpdateData(r.inp) # {}
        THEN Read(s, At(r, "update_one"))
        ELSE Read(s, At(r, "find_updated"))

update_project_update_one(s) ==
  /\ Pc(s, "update_project", "update_one")
  /\ LET r == req[s]
     IN /\ projects' = update_one(projects, [id |-> r.arg], UpdateData(r.inp))
        /\ IF find(projects, [id |-> r.arg]) # {}
           THEN Write(s, At(r, "find_updated"))
           ELSE Read(s, At(r, "find_updated"))
  /\ UNCHANGED <<users, organizations, tasks, task_comments, nIds, parentOf>>

update_project_find_updated(s) ==
  /\ Pc(s, "update_project", "find_updated")
  /\ LET r == req[s]
     IN Read(s, [At(r, "count_tasks") EXCEPT
                   !.loc.updated = find_one(projects, [id |-> r.arg])])

update_project_count_tasks(s) ==
  /\ Pc(s, "update_project", "count_tasks")
  /\ LET r == req[s]
     IN Read(s, [At(r, "count_done") EXCEPT
                   !.loc.n1 = count_documents(tasks, [project_id |-> r.arg])])

update_project_count_done(s) ==
  /\ Pc(s, "update_project", "count_done")
  /\ LET r == req[s]
     IN Read(s, [At(r, "broadcast") EXCEPT
                   !.loc.n2 = count_documents(tasks, [project_id |-> r.arg,
                                                      status |-> "DONE"])])

\* Project(**updated, ...) raises TypeError when updated is None
update_project_broadcast(s) ==
  /\ Pc(s, "update_project", "broadcast")
  /\ LET r == req[s]
     IN Publish(s, r.loc.org_id, "PROJECT_UPDATED", [id |-> r.arg],
                IF r.loc.updated = None THEN Raise(r, "TypeError")
                ELSE Return(r, {[kind |-> "Project", id |-> r.loc.updated.id]}))

\* ------------------------------------------------ Mutation.delete_project
delete_project_find_proj(s) ==
  /\ \E user \in Callers, id \in ProjectArgs :
       LET r == NewFrame("delete_project", user, id, NoInput, RootOfProject(id))
           proj == find_one(projects, [id |-> id])
       IN IF proj = None
          THEN Begin(s, Raise(r, "Project not found"))
          ELSE Begin(s, [At(r, "find_org") EXCEPT !.loc.org_id = proj.organization_id])
  /\ UNCHANGED nIds

delete_project_find_org(s) ==
  /\ Pc(s, "delete_project", "find_org")
  /\ LET r == req[s]
         org == find_one(organizations, [id |-> r.loc.org_id, user_id |-> r.caller.id])
     IN IF org = None
        THEN Read(s, Raise(r, "Access denied"))
        ELSE Read(s, At(r, "find_tasks"))

delete_project_find_tasks(s) ==
  /\ Pc(s, "delete_project", "find_tasks")
  /\ LET r == req[s]
         found == to_list(find(tasks, [project_id |-> r.arg]), ToListTasks)
     IN Read(s, [At(r, "delete_comments") EXCEPT !.loc.ids = {t.id : t \in found}])

delete_project_delete_comments(s) ==
  /\ Pc(s, "delete_project", "delete_comments")
  /\ LET r == req[s]
     IN /\ task_comments' =
             delete_many(task_comments, find_in(task_comments, "task_id", r.loc.ids))
        /\ Write(s, At(r, "delete_tasks"))
  /\ UNCHANGED <<users, organizations, projects, tasks, nIds, parentOf>>

delete_project_delete_tasks(s) ==
  /\ Pc(s, "delete_project", "delete_tasks")
  /\ LET r == req[s]
     IN /\ tasks' = delete_many(tasks, find(tasks, [project_id |-> r.arg]))
        /\ Write(s, At(r, "delete_one"))
  /\ UNCHANGED <<users, organizations, projects, task_comments, nIds, parentOf>>

delete_project_delete_one(s) ==
  /\ Pc(s, "delete_project", "delete_one")
  /\ LET r == req[s]
     IN /\ projects' = delete_one(projects, [id |-> r.arg])
        /\ Write(s, At(r, "broadcast"))
  /\ UNCHANGED <<users, organizations, tasks, task_comments, nIds, parentOf>>

delete_project_broadcast(s) ==
  /\ Pc(s, "delete_project", "broadcast")
  /\ LET r == req[s]
     IN Publish(s, r.loc.org_id, "PROJECT_DELETED", [id |-> r.arg], Return(r, {}))

\* --------------------------------------------------- Mutation.create_task
TaskDoc(id, input, project_id) ==
  [id |-> id, project_id |-> project_id, title |-> input.title,
   description |-> input.description, status |-> input.status,
   assignee_email |-> input.assignee_email, due_date |-> input.due_date,
   created_at |-> Now]

create_task_find_proj(s) ==
  /\ nIds["t"] + Pending("create_task", {"find_org"}) < MaxTasks
  /\ \E user \in Callers, project_id \in ProjectArgs, input \in TaskInputs :
       LET r == NewFrame("create_task", user, project_id, input, RootOfProject(project_id))
           proj == find_one(projects, [id |-> project_id])
       IN IF proj = None
          THEN Begin(s, Raise(r, "Project not found"))
          ELSE Begin(s, [At(r, "find_org") EXCEPT !.loc.org_id = proj.organization_id])
  /\ UNCHANGED nIds

create_task_find_org(s) ==
  /\ Pc(s, "create_task", "find_org")
  /\ LET r == req[s]
         org == find_one(organizations, [id |-> r.loc.org_id, user_id |-> r.caller.id])
     IN IF org = None
        THEN Read(s, Raise(r, "Access denied"))
        ELSE /\ Put(s, [At(r, "insert_one") EXCEPT
                           !.loc.new_id = generate_id("t", nIds["t"])])
             /\ nIds' = [nIds EXCEPT !["t"] = @ + 1]
             /\ UNCHANGED <<store, hub, subs, nStarted, nApplied, parentOf, hubCall>>

create_task_insert_one(s) ==
  /\ Pc(s, "create_task", "insert_one")
  /\ LET r == req[s]
     IN /\ tasks' = tasks \cup {TaskDoc(r.loc.new_id, r.inp, r.arg)}
        /\ parentOf' = parentOf @@ (r.loc.new_id :> r.arg)
        /\ Write(s, At(r, "broadcast"))
  /\ UNCHANGED <<users, organizations, projects, task_comments, nIds>>

create_task_broadcast(s) ==
  /\ Pc(s, "create_task", "broadcast")
  /\ LET r == req[s]
     IN Publish(s, r.loc.org_id, "TASK_CREATED",
                [id |-> r.loc.new_id, project_id |-> r.arg],
                Return(r, {[kind |-> "Task", id |-> r.loc.new_id]}))

\* --------------------------------------------------- Mutation.update_task
update_task_request(s, inputs) ==
  /\ \E user \in Callers, id \in TaskArgs, input \in inputs :
       LET r == NewFrame("update_task", user, id, input, RootOfTask(id))
           task == find_one(tasks, [id |-> id])
       IN IF task = None
          THEN Begin(s, Raise(r, "Task not found"))
          ELSE Begin(s, [At(r, "find_proj") EXCEPT !.loc.project_id = task.project_id])
  /\ UNCHANGED nIds

update_task_find_task(s) == update_task_request(s, TaskUpdateInputs)

update_task_find_proj(s) ==
  /\ Pc(s, "update_task", "find_proj")
  /\ LET r == req[s]
         proj == find_one(projects, [id |-> r.loc.project_id])
     IN IF proj = None
        THEN Read(s, Raise(r, "Project not found"))
        ELSE Read(s, [At(r, "find_org") EXCEPT !.loc.org_id = proj.organization_id])

update_task_find_org(s) ==
  /\ Pc(s, "update_task", "find_org")
  /\ LET r == req[s]
         org == find_one(organizations, [id |-> r.loc.org_id, user_id |-> r.caller.id])
     IN IF org = None
        THEN Read(s, Raise(r, "Access denied"))
        ELSE IF DOMAIN UpdateData(r.inp) # {}
        THEN Read(s, At(r, "update_one"))
        ELSE Read(s, At(r, "find_updated"))

update_task_update_one(s) ==
  /\ Pc(s, "update_task", "update_one")
  /\ LET r == req[s]
     IN /\ tasks' = update_one(tasks, [id |-> r.arg], UpdateData(r.inp))
        /\ IF find(tasks, [id |-> r.arg]) # {}
           THEN Write(s, At(r, "find_updated"))
           ELSE Read(s, At(r, "find_updated"))
  /\ UNCHANGED <<users, organizations, projects, task_comments, nIds, parentOf>>

update_task_find_updated(s) ==
  /\ Pc(s, "update_task", "find_updated")
  /\ LET r == req[s]
     IN Read(s, [At(r, "broadcast") EXCEPT
                   !.loc.updated = find_one(tasks, [id |-> r.arg])])

\* Task(**updated) raises TypeError when updated is None
update_task_broadcast(s) ==
  /\ Pc(s, "update_task", "broadcast")
  /\ LET r == req[s]
     IN Publish(s, r.loc.org_id, "TASK_UPDATED",
                [id |-> r.arg, project_id |-> r.loc.project_id],
                IF r.loc.updated = None THEN Raise(r, "TypeError")
                ELSE Return(r, {[kind |-> "Task", id |-> r.loc.updated.id]}))

\* --------------------------------------------------- Mutation.delete_task
delete_task_find_task(s) ==
  /\ \E user \in Callers, id \in TaskArgs :
       LET r == NewFrame("delete_task", user, id, NoInput, RootOfTask(id))
           task == find_one(tasks, [id |-> id])
       IN IF task = None
          THEN Begin(s, Raise(r, "Task not found"))
          ELSE Begin(s, [At(r, "find_proj") EXCEPT !.loc.project_id = task.project_id])
  /\ UNCHANGED nIds

delete_task_find_proj(s) ==
  /\ Pc(s, "delete_task", "find_proj")
  /\ LET r == req[s]
         proj == find_one(projects, [id |-> r.loc.project_id])
     IN IF proj = None
        THEN Read(s, Raise(r, "Project not found"))
        ELSE Read(s, [At(r, "find_org") EXCEPT !.loc.org_id = proj.organization_id])

delete_task_find_org(s) ==
  /\ Pc(s, "delete_task", "find_org")
  /\ LET r == req[s]
         org == find_one(organizations, [id |-> r.loc.org_id, user_id |-> r.caller.id])
     IN IF org = None
        THEN Read(s, Raise(r, "Access denied"))
        ELSE Read(s, At(r, "delete_comments"))

delete_task_delete_comments(s) ==
  /\ Pc(s, "delete_task", "delete_comments")
  /\ LET r == req[s]
     IN /\ task_comments' = delete_many(task_comments, find(task_comments, [task_id |-> r.arg]))
        /\ Write(s, At(r, "delete_one"))
  /\ UNCHANGED <<users, organizations, projects, tasks, nIds, parentOf>>

delete_task_delete_one(s) ==
  /\ Pc(s, "delete_task", "delete_one")
  /\ LET r == req[s]
     IN /\ tasks' = delete_one(tasks, [id |-> r.arg])
        /\ Write(s, At(r, "broadcast"))
  /\ UNCHANGED <<users, organizations, projects, task_comments, nIds, parentOf>>

delete_task_broadcast(s) ==
  /\ Pc(s, "delete_task", "broadcast")
  /\ LET r == req[s]
     IN Publish(s, r.loc.org_id, "TASK_DELETED",
                [id |-> r.arg, project_id |-> r.loc.project_id], Return(r, {}))

\* --------------------------------------------------- Mutation.add_comment
CommentDoc(id, input, author_email) ==
  [id |-> id, task_id |-> input.task_id, content |-> input.content,
   author_email |-> author_email]

add_comment_find_task(s) ==
  /\ nIds["c"] + Pending("add_comment", {"find_proj", "find_org"}) < MaxComments
  /\ \E user \in Callers, task_id \in TaskArgs, input \in TaskCommentInputs :
       LET r == NewFrame("add_comment", user, task_id,
                         [task_id |-> task_id, content |-> input.content],
                         RootOfTask(task_id))
           task == find_one(tasks, [id |-> task_id])
       IN IF task = None
          THEN Begin(s, Raise(r, "Task not found"))
          ELSE Begin(s, [At(r, "find_proj") EXCEPT !.loc.project_id = task.project_id])
  /\ UNCHANGED nIds

add_comment_find_proj(s) ==
  /\ Pc(s, "add_comment", "find_proj")
  /\ LET r == req[s]
         proj == find_one(projects, [id |-> r.loc.project_id])
     IN IF proj = None
        THEN Read(s, Raise(r, "Project not found"))
        ELSE Read(s, [At(r, "find_org") EXCEPT !.loc.org_id = proj.organization_id])

add_comment_find_org(s) ==
  /\ Pc(s, "add_comment", "find_org")
  /\ LET r == req[s]
         org == find_one(organizations, [id |-> r.loc.org_id, user_id |-> r.caller.id])
     IN IF org = None
        THEN Read(s, Raise(r, "Access denied"))
        ELSE /\ Put(s, [At(r, "insert_one") EXCEPT
                           !.loc.new_id = generate_id("c", nIds["c"])])
             /\ nIds' = [nIds EXCEPT !["c"] = @ + 1]
             /\ UNCHANGED <<store, hub, subs, nStarted, nApplied, parentOf, hubCall>>

add_comment_insert_one(s) ==
  /\ Pc(s, "add_comment", "insert_one")
  /\ LET r == req[s]
     IN /\ task_comments' =
             task_comments \cup {CommentDoc(r.loc.new_id, r.inp, r.caller.email)}
        /\ parentOf' = parentOf @@ (r.loc.new_id :> r.arg)
        /\ Write(s, At(r, "broadcast"))
  /\ UNCHANGED <<users, organizations, projects, tasks, nIds>>

add_comment_broadcast(s) ==
  /\ Pc(s, "add_comment", "broadcast")
  /\ LET r == req[s]
     IN Publish(s, r.loc.org_id, "COMMENT_ADDED",
                [id |-> r.loc.new_id, task_id |-> r.arg],
                Return(r, {[kind |-> "TaskComment", id |-> r.loc.new_id]}))

\* ------------------------------------------------ Mutation.delete_comment
\* a delete_comment that looks the comment up and does not compare the author
delete_comment_find_comment_unchecked(s) ==
  /\ \E user \in Callers, id \in CommentArgs :
       LET r == NewFrame("delete_comment", user, id, NoInput, RootOfComment(id))
           comment == find_one(task_comments, [id |-> id])
       IN IF comment = None
          THEN Begin(s, Raise(r, "Comment not found"))
          ELSE Begin(s, At(r, "delete_one"))
  /\ UNCHANGED nIds

delete_comment_find_comment(s) ==
  /\ \E user \in Callers, id \in CommentArgs :
       LET r == NewFrame("delete_comment", user, id, NoInput, RootOfComment(id))
           comment == find_one(task_comments, [id |-> id])
       IN IF comment = None
          THEN Begin(s, Raise(r, "Comment not found"))
          ELSE IF comment.author_email # user.email
          THEN Begin(s, Raise(r, "Access denied"))
          ELSE Begin(s, At(r, "delete_one"))
  /\ UNCHANGED nIds

delete_comment_delete_one(s) ==
  /\ Pc(s, "delete_comment", "delete_one")
  /\ LET r == req[s]
     IN /\ task_comments' = delete_one(task_comments, [id |-> r.arg])
        /\ Write(s, At(r, "return"))
  /\ UNCHANGED <<users, organizations, projects, tasks, nIds, parentOf>>

delete_comment_return(s) ==
  /\ Pc(s, "delete_comment", "return")
  /\ Put(s, Return(req[s], {}))
  /\ UNCHANGED <<store, hub, subs, nStarted, nIds, nApplied, parentOf, hubCall>>

\* ---------------------------------------------------------------- Query
\* position of an id in the order of generation, the order of insertion
Ord(id) ==
  CHOOSE n \in DOMAIN IdNames :
    \E kind \in {"u", "o", "p", "t", "c"} : generate_id(kind, n - 1) = id

First(docs) == CHOOSE d \in docs : \A e \in docs : Ord(d.id) <= Ord(e.id)

OrganizationType(org) == [kind |-> "Organization", id |-> org.id, doc |-> org]
ProjectType(proj, task_count, completed_tasks) ==
  [kind |-> "Project", id |-> proj.id, doc |-> proj, task_count |-> task_count,
   completed_tasks |-> completed_tasks]
TaskType(task) == [kind |-> "Task", id |-> task.id, doc |-> task]
TaskCommentType(comment) == [kind |-> "TaskComment", id |-> comment.id, doc |-> comment]

organizations_find(s) ==
  /\ \E user \in Callers :
       LET r == NewFrame("organizations", user, "", NoInput, "")
           orgs == to_list(find(organizations, [user_id |-> user.id]), ToListProjects)
       IN Begin(s, Return(r, {OrganizationType(org) : org \in orgs}))
  /\ UNCHANGED nIds

organization_find_one(s) ==
  /\ \E user \in Callers, id \in OrgArgs :
       LET r == NewFrame("organization", user, id, NoInput, RootOfOrganization(id))
           org == find_one(organizations, [id |-> id, user_id |-> user.id])
       IN IF org # None
          THEN Begin(s, Return(r, {OrganizationType(org)}))
          ELSE Begin(s, Return(r, {}))
  /\ UNCHANGED nIds

\* Query.projects
projects_find_org(s) ==
  /\ \E user \in Callers, organization_id \in OrgArgs :
       LET r == NewFrame("projects", user, organization_id, NoInput,
                         RootOfOrganization(organization_id))
           org == find_one(organizations, [id |-> organization_id, user_id |-> user.id])
       IN IF org = None
          THEN Begin(s, Raise(r, "Organization not found"))
          ELSE Begin(s, At(r, "find_projects"))
  /\ UNCHANGED nIds

projects_find_projects(s) ==
  /\ Pc(s, "projects", "find_projects")
  /\ LET r == req[s]
         found == to_list(find(projects, [organization_id |-> r.arg]), ToListProjects)
     IN IF found = {}
        THEN Read(s, Return(r, {}))
        ELSE Read(s, [At(r, "count_tasks") EXCEPT !.loc.docs = found])

projects_count_tasks(s) ==
  /\ Pc(s, "projects", "count_tasks")
  /\ LET r == req[s]
         proj == First(r.loc.docs)
     IN Read(s, [At(r, "count_done") EXCEPT
                   !.loc.n1 = count_documents(tasks, [project_id |-> proj.id])])

projects_count_done(s) ==
  /\ Pc(s, "projects", "count_done")
  /\ LET r == req[s]
         proj == First(r.loc.docs)
         completed_tasks == count_documents(tasks, [project_id |-> proj.id,
                                                    status |-> "DONE"])
         result == r.loc.result \cup {ProjectType(proj, r.loc.n1, completed_tasks)}
     IN IF r.loc.docs = {proj}
        THEN Read(s, Return(r, result))
        ELSE Read(s, [At(r, "count_tasks") EXCEPT !.loc.docs = @ \ {proj},
                                                  !.loc.result = result])

\* Query.project
project_find_proj(s) ==
  /\ \E user \in Callers, id \in ProjectArgs :
       LET r == NewFrame("project", user, id, NoInput, RootOfProject(id))
           proj == find_one(projects, [id |-> id])
       IN IF proj # None
          THEN Begin(s, [At(r, "find_org") EXCEPT !.loc.doc = proj])
          ELSE Begin(s, Return(r, {}))
  /\ UNCHANGED nIds

project_find_org(s) ==
  /\ Pc(s, "project", "find_org")
  /\ LET r == req[s]
         org == find_one(organizations, [id |-> r.loc.doc.organization_id,
                                         user_id |-> r.caller.id])
     IN IF org = None
        THEN Read(s, Raise(r, "Access denied"))
        ELSE Read(s, At(r, "count_tasks"))

project_count_tasks(s) ==
  /\ Pc(s, "project", "count_tasks")
  /\ LET r == req[s]
     IN Read(s, [At(r, "count_done") EXCEPT
                   !.loc.n1 = count_documents(tasks, [project_id |-> r.loc.doc.id])])

project_count_done(s) ==
  /\ Pc(s, "project", "count_done")
  /\ LET r == req[s]
         completed_tasks == count_documents(tasks, [project_id |-> r.loc.doc.id,
                                                    status |-> "DONE"])
     IN Read(s, Return(r, {ProjectType(r.loc.doc, r.loc.n1, completed_tasks)}))

\* Query.tasks
tasks_find_proj(s) ==
  /\ \E user \in Callers, project_id \in ProjectArgs :
       LET r == NewFrame("tasks", user, project_id, NoInput, RootOfProject(project_id))
           proj == find_one(projects, [id |-> project_id])
       IN IF proj = None
          THEN Begin(s, Raise(r, "Project not found"))
          ELSE Begin(s, [At(r, "find_org") EXCEPT !.loc.org_id = proj.organization_id])
  /\ UNCHANGED nIds

tasks_find_org(s) ==
  /\ Pc(s, "tasks", "find_org")
  /\ LET r == req[s]
         org == find_one(organizations, [id |-> r.loc.org_id, user_id |-> r.caller.id])
     IN IF org = None
        THEN Read(s, Raise(r, "Access denied"))
        ELSE Read(s, At(r, "find_tasks"))

tasks_find_tasks(s) ==
  /\ Pc(s, "tasks", "find_tasks")
  /\ LET r == req[s]
         found == to_list(find(tasks, [project_id |-> r.arg]), ToListTasks)
     IN Read(s, Return(r, {TaskType(task) : task \in found}))

\* Query.task
task_find_task(s) ==
  /\ \E user \in Callers, id \in TaskArgs :
       LET r == NewFrame("task", user, id, NoInput, RootOfTask(id))
           task == find_one(tasks, [id |-> id])
       IN IF task # None
          THEN Begin(s, [At(r, "find_proj") EXCEPT !.loc.doc = task])
          ELSE Begin(s, Return(r, {}))
  /\ UNCHANGED nIds

task_find_proj(s) ==
  /\ Pc(s, "task", "find_proj")
  /\ LET r == req[s]
         proj == find_one(projects, [id |-> r.loc.doc.project_id])
     IN IF proj # None
        THEN Read(s, [At(r, "find_org") EXCEPT !.loc.org_id = proj.organization_id])
        ELSE Read(s, Return(r, {}))

task_find_org(s) ==
  /\ Pc(s, "task", "find_org")
  /\ LET r == req[s]
         org == find_one(organizations, [id |-> r.loc.org_id, user_id |-> r.caller.id])
     IN IF org # None
        THEN Read(s, Return(r, {TaskType(r.loc.doc)}))
        ELSE Read(s, Return(r, {}))

\* Query.task_comments
task_comments_find(s) ==
  /\ \E user \in Callers, task_id \in TaskArgs :
       LET r == NewFrame("task_comments", user, task_id, NoInput, RootOfTask(task_id))
           comments == to_list(find(task_comments, [task_id |-> task_id]), ToListTasks)
       IN Begin(s, Return(r, {TaskCommentType(comment) : comment \in comments}))
  /\ UNCHANGED nIds

\* Query.project_stats
\* round(completed_tasks / total_tasks * 100, 1), in tenths of a percent
CompletionRate(completed_tasks, total_tasks) ==
  IF total_tasks > 0
  THEN (2 * completed_tasks * 1000 + total_tasks) \div (2 * total_tasks)
  ELSE 0

ProjectStats(organization_id, counts, total_tasks, completed_tasks) ==
  [kind |-> "ProjectStats", id |-> organization_id,
   total_projects |-> counts[1], active_projects |-> counts[2],
   completed_projects |-> counts[3], on_hold_projects |-> counts[4],
   total_tasks |-> total_tasks, completed_tasks |-> completed_tasks,
   completion_rate |-> CompletionRate(completed_tasks, total_tasks)]

project_stats_find_org(s) ==
  /\ \E user \in Callers, organization_id \in OrgArgs :
       LET r == NewFrame("project_stats", user, organization_id, NoInput,
                         RootOfOrganization(organization_id))
           org == find_one(organizations, [id |-> organization_id, user_id |-> user.id])
       IN IF org = None
          THEN Begin(s, Raise(r, "Organization not found"))
          ELSE Begin(s, At(r, "count_total"))
  /\ UNCHANGED nIds

ProjectCount(s, pc, filter, next) ==
  /\ Pc(s, "project_stats", pc)
  /\ LET r == req[s]
     IN Read(s, [At(r, next) EXCEPT
                   !.loc.counts = Append(@, count_documents(projects, filter))])

project_stats_count_total(s) ==
  ProjectCount(s, "count_total", [organization_id |-> req[s].arg], "count_active")

project_stats_count_active(s) ==
  ProjectCount(s, "count_active",
               [organization_id |-> req[s].arg, status |-> "ACTIVE"], "count_completed")

project_stats_count_completed(s) ==
  ProjectCount(s, "count_completed",
               [organization_id |-> req[s].arg, status |-> "COMPLETED"], "count_on_hold")

project_stats_count_on_hold(s) ==
  ProjectCount(s, "count_on_hold",
               [organization_id |-> req[s].arg, status |-> "ON_HOLD"], "find_projects")

\* a project_stats that collects the project ids of every organization
project_stats_find_projects_any_org(s) ==
  /\ Pc(s, "project_stats", "find_projects")
  /\ LET r == req[s]
         project_ids == {p.id : p \in to_list(projects, ToListTasks)}
     IN IF project_ids = {}
        THEN Read(s, Return(r, {ProjectStats(r.arg, r.loc.counts, 0, 0)}))
        ELSE Read(s, [At(r, "count_tasks") EXCEPT !.loc.ids = project_ids])

\* a count of done tasks that counts every task of the projects
project_stats_count_done_all(s) ==
  /\ Pc(s, "project_stats", "count_done")
  /\ LET r == req[s]
     IN Read(s, Return(r, {ProjectStats(r.arg, r.loc.counts, r.loc.n1, r.loc.n1)}))

\* with no project ids neither count of tasks is awaited
project_stats_find_projects(s) ==
  /\ Pc(s, "project_stats", "find_projects")
  /\ LET r == req[s]
         found == to_list(find(projects, [organization_id |-> r.arg]), ToListTasks)
         project_ids == {p.id : p \in found}
     IN IF project_ids = {}
        THEN Read(s, Return(r, {ProjectStats(r.arg, r.loc.counts, 0, 0)}))
        ELSE Read(s, [At(r, "count_tasks") EXCEPT !.loc.ids = project_ids])

project_stats_count_tasks(s) ==
  /\ Pc(s, "project_stats", "count_tasks")
  /\ LET r == req[s]
     IN Read(s, [At(r, "count_done") EXCEPT
                   !.loc.n1 = Cardinality(find_in(tasks, "project_id", r.loc.ids))])

project_stats_count_done(s) ==
  /\ Pc(s, "project_stats", "count_done")
  /\ LET r == req[s]
         completed_tasks ==
           Cardinality(find(find_in(tasks, "project_id", r.loc.ids), [status |-> "DONE"]))
     IN Read(s, Return(r, {ProjectStats(r.arg, r.loc.counts, r.loc.n1, completed_tasks)}))

\* ------------------------------------------------- unauthenticated requests
\* Tokens that authenticate nobody: no Authorization header, a token that
\* jwt.decode rejects (malformed, wrong signature, expired), a token without
\* "sub", and a token whose "sub" is the email of no user.
BadTokens ==
  {[kind |-> "missing", sub |-> ""], [kind |-> "invalid", sub |-> ""],
   [kind |-> "valid", sub |-> Null], [kind |-> "valid", sub |-> "x@x.com"]}

\* jwt.decode: the payload, or JWTError
decode(token) ==
  IF token.kind = "valid"
  THEN [raised |-> "", sub |-> token.sub]
  ELSE [raised |-> "JWTError", sub |-> Null]

get_context_lenient(token) == users[1]

\* get_context, get_current_user(token): the user of the request, or None
get_context(token) ==
  IF token.kind = "missing" THEN None
  ELSE LET payload == decode(token)
       IN IF payload.raised # "" THEN None
          ELSE IF payload.sub = Null THEN None
          ELSE get_current_user(payload.sub)

\* the handlers that start with `if not user: raise Exception("Not authenticated")`
AuthenticatedOps ==
  {"organizations", "organization", "projects", "project", "tasks", "task",
   "task_comments", "project_stats", "create_organization", "create_project",
   "update_project", "delete_project", "create_task", "update_task", "delete_task",
   "add_comment", "delete_comment"}

AnyArgs == OrgArgs \cup ProjectArgs \cup TaskArgs \cup CommentArgs

\* A request of one of these handlers with a token that authenticates nobody:
\* the context has user None and the handler's first statement raises.  (The
\* requests of authenticated users are the handlers' own actions.)
handler_not_authenticated(s) ==
  /\ \E op \in AuthenticatedOps, token \in BadTokens, arg \in AnyArgs :
       LET user == get_context(token)
           r == [NewFrame(op, user, arg, NoInput, "") EXCEPT !.g.token = token]
       IN IF user = None
          THEN Begin(s, Raise(r, "Not authenticated"))
          ELSE Begin(s, At(r, "authenticated"))
  /\ UNCHANGED nIds

\* ------------------------------------------- registration, organizations
Emails == {"a@x.com", "c@x.com"}
Slugs == {"acme-co", "new-co"}

UserDocs == {users[i] : i \in DOMAIN users}
UserDoc(id, email) == [id |-> id, email |-> email]
OrgDoc(id, user_id, slug) == [id |-> id, user_id |-> user_id, slug |-> slug]

\* raise HTTPException(status_code=..., detail=...)
HTTPException(r, status_code, detail) ==
  [Raise(r, detail) EXCEPT !.res = {[kind |-> "HTTPException", id |-> "",
                                     status_code |-> status_code]}]

\* Mutation.register
register_find_one(s) ==
  /\ \E email \in Emails :
       LET existing == find_one(UserDocs, [email |-> email])
           r == [NewFrame("register", None, email, NoInput, "") EXCEPT
                   !.g.dup = (existing # None)]
       IN IF existing # None
          THEN Begin(s, Raise(r, "Email already registered")) /\ UNCHANGED nIds
          ELSE /\ Begin(s, [At(r, "insert_one") EXCEPT
                              !.loc.new_id = generate_id("u", nIds["u"])])
               /\ nIds' = [nIds EXCEPT !["u"] = @ + 1]

register_insert_one(s) ==
  /\ Pc(s, "register", "insert_one")
  /\ LET r == req[s]
     IN /\ users' = Append(users, UserDoc(r.loc.new_id, r.arg))
        /\ Write(s, Return(r, {[kind |-> "AuthPayload", id |-> r.loc.new_id,
                                sub |-> r.arg]}))
  /\ UNCHANGED <<organizations, projects, tasks, task_comments, nIds, parentOf>>

\* POST /api/auth/register
register_rest_find_one(s) ==
  /\ \E email \in Emails :
       LET existing == find_one(UserDocs, [email |-> email])
           r == [NewFrame("register_rest", None, email, NoInput, "") EXCEPT
                   !.g.dup = (existing # None)]
       IN IF existing # None
          THEN Begin(s, HTTPException(r, 400, "Email already registered"))
               /\ UNCHANGED nIds
          ELSE /\ Begin(s, [At(r, "insert_one") EXCEPT
                              !.loc.new_id = generate_id("u", nIds["u"])])
               /\ nIds' = [nIds EXCEPT !["u"] = @ + 1]

register_rest_insert_one(s) ==
  /\ Pc(s, "register_rest", "insert_one")
  /\ LET r == req[s]
     IN /\ users' = Append(users, UserDoc(r.loc.new_id, r.arg))
        /\ Write(s, Return(r, {[kind |-> "AuthPayload", id |-> r.loc.new_id,
                                sub |-> r.arg]}))
  /\ UNCHANGED <<organizations, projects, tasks, task_comments, nIds, parentOf>>

\* Mutation.create_organization
create_organization_find_one(s) ==
  /\ \E user \in Callers, slug \in Slugs :
       LET existing == find_one(organizations, [slug |-> slug])
           r == [NewFrame("create_organization", user, slug, NoInput, "") EXCEPT
                   !.g.dup = (existing # None)]
       IN IF existing # None
          THEN Begin(s, Raise(r, "Organization slug already exists")) /\ UNCHANGED nIds
          ELSE /\ Begin(s, [At(r, "insert_one") EXCEPT
                              !.loc.new_id = generate_id("o", nIds["o"])])
               /\ nIds' = [nIds EXCEPT !["o"] = @ + 1]

create_organization_insert_one(s) ==
  /\ Pc(s, "create_organization", "insert_one")
  /\ LET r == req[s]
     IN /\ organizations' = organizations \cup {OrgDoc(r.loc.new_id, r.caller.id, r.arg)}
        /\ Write(s, Return(r, {[kind |-> "Organization", id |-> r.loc.new_id]}))
  /\ UNCHANGED <<users, projects, tasks, task_comments, nIds, parentOf>>

\* ------------------------------------- Subscription.organization_events
\* event["type"].split("_")[0]
SplitFirst(type) ==
  CASE type \in {"PROJECT_CREATED", "PROJECT_UPDATED", "PROJECT_DELETED"} -> "PROJECT"
    [] type \in {"TASK_CREATED", "TASK_UPDATED", "TASK_DELETED"} -> "TASK"
    [] type = "COMMENT_ADDED" -> "COMMENT"
    [] OTHER -> type

SubscriptionEvent(event, organization_id) ==
  [event_type |-> event.type, entity_type |-> SplitFirst(event.type),
   entity_id |-> IF "id" \in DOMAIN event.data THEN event.data.id ELSE "",
   organization_id |-> organization_id, g |-> event.g]

\* the generator's first step: subscribe, then wait in queue.get().  The
\* handler does not read info.context; caller is history, the user that
\* get_context put there.
organization_events_open(max, callers) ==
  /\ Cardinality(DOMAIN queues) < max
  /\ \E organization_id \in OrgArgs, user \in callers :
       LET queue == Cardinality(DOMAIN queues) + 1
       IN /\ connections' = subscribe(connections, organization_id, queue)
          /\ queues' = queues @@ (queue :> <<>>)
          /\ subs' = subs @@ (queue :> [organization_id |-> organization_id,
                                        pc |-> "get", yielded |-> <<>>,
                                        caller |-> user])
  /\ UNCHANGED <<store, req, last, nStarted, nIds, nApplied, parentOf, hubCall>>

\* opened without a token; the handler treats every caller alike
organization_events_subscribe == organization_events_open(MaxSubs, {None})

organization_events_yield_last(queue) ==
  /\ queue \in DOMAIN subs
  /\ subs[queue].pc = "get"
  /\ queues[queue] # <<>>
  /\ queues' = [queues EXCEPT ![queue] = SubSeq(@, 1, Len(@) - 1)]
  /\ subs' = [subs EXCEPT ![queue].pc = "yield",
                          ![queue].yielded =
                             Append(@, SubscriptionEvent(queues[queue][Len(queues[queue])],
                                                         subs[queue].organization_id))]
  /\ UNCHANGED <<store, connections, req, last, nStarted, nIds, nApplied, parentOf, hubCall>>

\* a generator that takes an event from its queue and yields nothing
organization_events_yield_drop(queue) ==
  /\ queue \in DOMAIN subs
  /\ subs[queue].pc = "get"
  /\ queues[queue] # <<>>
  /\ queues' = [queues EXCEPT ![queue] = Tail(@)]
  /\ UNCHANGED <<store, connections, subs, req, last, nStarted, nIds, nApplied, parentOf,
                 hubCall>>

\* queue.get() returns an event and the generator yields it
organization_events_yield(queue) ==
  /\ queue \in DOMAIN subs
  /\ subs[queue].pc = "get"
  /\ queues[queue] # <<>>
  /\ queues' = [queues EXCEPT ![queue] = Tail(@)]
  /\ subs' = [subs EXCEPT ![queue].pc = "yield",
                          ![queue].yielded =
                             Append(@, SubscriptionEvent(Head(queues[queue]),
                                                         subs[queue].organization_id))]
  /\ UNCHANGED <<store, connections, req, last, nStarted, nIds, nApplied, parentOf, hubCall>>

\* the consumer asks for the next event: back to queue.get()
organization_events_next(queue) ==
  /\ queue \in DOMAIN subs
  /\ subs[queue].pc = "yield"
  /\ subs' = [subs EXCEPT ![queue].pc = "get"]
  /\ UNCHANGED <<store, hub, req, last, nStarted, nIds, nApplied, parentOf, hubCall>>

\* the task is cancelled while the generator waits in queue.get():
\* CancelledError is caught and the queue unsubscribed
organization_events_cancelled(queue) ==
  /\ queue \in DOMAIN subs
  /\ subs[queue].pc = "get"
  /\ connections' = unsubscribe(connections, subs[queue].organization_id, queue).connections
  /\ subs' = [subs EXCEPT ![queue].pc = "cancelled"]
  /\ UNCHANGED <<store, queues, req, last, nStarted, nIds, nApplied, parentOf, hubCall>>

\* the generator is closed while suspended at yield: GeneratorExit is raised
\* at the yield, which `except asyncio.CancelledError` does not catch
organization_events_closed(queue) ==
  /\ queue \in DOMAIN subs
  /\ subs[queue].pc = "yield"
  /\ subs' = [subs EXCEPT ![queue].pc = "closed"]
  /\ UNCHANGED <<store, hub, req, last, nStarted, nIds, nApplied, parentOf, hubCall>>

\* ------------------------------ SubscriptionManager, called directly
MaxHubQueues == 2
MaxQueueLen == 2
HubOrgs == {"o1", "o2"}
\* the call, what it raised, the registry before it, and the history of the
\* organization each queue was subscribed under
HubCall(op, raised, org_id, queue, home) ==
  [op |-> op, raised |-> raised, org_id |-> org_id, queue |-> queue,
   before |-> connections, home |-> home]

hub_subscribe ==
  /\ Cardinality(DOMAIN queues) < MaxHubQueues
  /\ \E org_id \in HubOrgs :
       LET queue == Cardinality(DOMAIN queues) + 1
       IN /\ connections' = subscribe(connections, org_id, queue)
          /\ queues' = queues @@ (queue :> <<>>)
          /\ hubCall' = HubCall("subscribe", "", org_id, queue,
                                     hubCall.home @@ (queue :> org_id))
  /\ UNCHANGED <<store, subs, req, last, nStarted, nIds, nApplied, parentOf>>

hub_unsubscribe ==
  /\ \E org_id \in HubOrgs, queue \in DOMAIN queues :
       LET done == unsubscribe(connections, org_id, queue)
       IN /\ connections' = done.connections
          /\ hubCall' = HubCall("unsubscribe", done.raised, org_id, queue,
                                     hubCall.home)
  /\ UNCHANGED <<store, queues, subs, req, last, nStarted, nIds, nApplied, parentOf>>

hub_broadcast ==
  /\ \A queue \in DOMAIN queues : Len(queues[queue]) < MaxQueueLen
  /\ \E org_id \in HubOrgs, type \in {"TASK_CREATED", "TASK_DELETED"} :
       /\ queues' = broadcast(connections, queues, org_id,
                              [type |-> type, data |-> [id |-> "t1"],
                               g |-> [req |-> 0, ap |-> 0, fin |-> 0,
                                      nq |-> Cardinality(DOMAIN queues), ord |-> 0]])
       /\ hubCall' = HubCall("broadcast", "", org_id, 0, hubCall.home)
  /\ UNCHANGED <<store, connections, subs, req, last, nStarted, nIds, nApplied, parentOf>>

\* ---------------------------------------------------- the specification
\* Two registered users, each the owner of one organization; the first has
\* created project p1 in its organization and task t1 in p1, and commented
\* on t1.
Init ==
  /\ users = <<UserA, UserB>>
  /\ organizations = {OrgA, OrgB}
  /\ projects = {ProjectDoc("p1", "o1", [name |-> "n1", description |-> "",
                                         status |-> "ACTIVE", due_date |-> Null])}
  /\ tasks = {TaskDoc("t1", [title |-> "t1", description |-> "", status |-> "TODO",
                             assignee_email |-> "", due_date |-> Null], "p1")}
  /\ task_comments = {CommentDoc("c1", [task_id |-> "t1", content |-> "c1"], "a@x.com")}
  /\ connections = <<>>
  /\ queues = <<>>
  /\ subs = <<>>
  /\ req = [s \in Slots |-> Idle]
  /\ last = Idle
  /\ nStarted = 0
  /\ nIds = [u |-> 2, o |-> 2, p |-> 1, t |-> 1, c |-> 1]
  /\ nApplied = 0
  /\ parentOf = ("p1" :> "o1") @@ ("t1" :> "p1") @@ ("c1" :> "t1")
  /\ hubCall = [op |-> "", raised |-> "", org_id |-> "", queue |-> 0, before |-> <<>>,
                home |-> <<>>]

MutationStep(s) ==
  \/ create_project_find_org(s) \/ create_project_insert_one(s)
  \/ create_project_broadcast(s)
  \/ update_project_find_proj(s) \/ update_project_find_org(s)
  \/ update_project_update_one(s) \/ update_project_find_updated(s)
  \/ update_project_count_tasks(s) \/ update_project_count_done(s)
  \/ update_project_broadcast(s)
  \/ delete_project_find_proj(s) \/ delete_project_find_org(s)
  \/ delete_project_find_tasks(s) \/ delete_project_delete_comments(s)
  \/ delete_project_delete_tasks(s) \/ delete_project_delete_one(s)
  \/ delete_project_broadcast(s)
  \/ create_task_find_proj(s) \/ create_task_find_org(s)
  \/ create_task_insert_one(s) \/ create_task_broadcast(s)
  \/ update_task_find_task(s) \/ update_task_find_proj(s) \/ update_task_find_org(s)
  \/ update_task_update_one(s) \/ update_task_find_updated(s)
  \/ update_task_broadcast(s)
  \/ delete_task_find_task(s) \/ delete_task_find_proj(s) \/ delete_task_find_org(s)
  \/ delete_task_delete_comments(s) \/ delete_task_delete_one(s)
  \/ delete_task_broadcast(s)
  \/ add_comment_find_task(s) \/ add_comment_find_proj(s) \/ add_comment_find_org(s)
  \/ add_comment_insert_one(s) \/ add_comment_broadcast(s)
  \/ delete_comment_find_comment(s) \/ delete_comment_delete_one(s)
  \/ delete_comment_return(s)

Queues == 1..MaxSubs

SubscriptionStep ==
  \/ organization_events_subscribe
  \/ \E queue \in Queues :
       \/ organization_events_yield(queue)
       \/ organization_events_next(queue)
       \/ organization_events_cancelled(queue)
       \/ organization_events_closed(queue)

Next ==
  \/ \E s \in Slots : MutationStep(s)
  \/ SubscriptionStep

Spec == Init /\ [][Next]_vars

QueryStep(s) ==
  \/ organizations_find(s) \/ organization_find_one(s)
  \/ projects_find_org(s) \/ projects_find_projects(s)
  \/ projects_count_tasks(s) \/ projects_count_done(s)
  \/ project_find_proj(s) \/ project_find_org(s)
  \/ project_count_tasks(s) \/ project_count_done(s)
  \/ tasks_find_proj(s) \/ tasks_find_org(s) \/ tasks_find_tasks(s)
  \/ task_find_task(s) \/ task_find_proj(s) \/ task_find_org(s)
  \/ task_comments_find(s)
  \/ project_stats_find_org(s) \/ project_stats_count_total(s)
  \/ project_stats_count_active(s) \/ project_stats_count_completed(s)
  \/ project_stats_count_on_hold(s) \/ project_stats_find_projects(s)
  \/ project_stats_count_tasks(s) \/ project_stats_count_done(s)

\* the queries, from the same state
SpecQuery == Init /\ [][\E s \in Slots : QueryStep(s)]_vars

\* one request at a time: with a single slot a handler starts only when no
\* other is in flight
SpecSequential == Init /\ [][\E s \in {1} : MutationStep(s) \/ QueryStep(s)]_vars

UpdateStep(s) ==
  \/ update_project_request(s, AnyProjectUpdateInputs) \/ update_project_find_org(s)
  \/ update_project_update_one(s) \/ update_project_find_updated(s)
  \/ update_project_count_tasks(s) \/ update_project_count_done(s)
  \/ update_project_broadcast(s)
  \/ update_task_request(s, AnyTaskUpdateInputs) \/ update_task_find_proj(s)
  \/ update_task_find_org(s) \/ update_task_update_one(s)
  \/ update_task_find_updated(s) \/ update_task_broadcast(s)

\* the updates with the richer inputs, from the same state
SpecUpdate == Init /\ [][\E s \in Slots : UpdateStep(s)]_vars

MaxListeners == 2

DeliveryStep(s) ==
  \/ update_task_find_task(s) \/ update_task_find_proj(s) \/ update_task_find_org(s)
  \/ update_task_update_one(s) \/ update_task_find_updated(s)
  \/ update_task_broadcast(s)

\* updates of tasks, with up to MaxListeners subscriptions
SpecDelivery ==
  Init /\ [][\/ \E s \in Slots : DeliveryStep(s)
             \/ organization_events_open(MaxListeners, {None})
             \/ \E queue \in 1..MaxListeners :
                  \/ organization_events_yield(queue)
                  \/ organization_events_next(queue)
                  \/ organization_events_cancelled(queue)
                  \/ organization_events_closed(queue)]_vars

\* updates of tasks, with a subscription opened by any caller: the owner,
\* the other user, or nobody
SpecSubscribe ==
  Init /\ [][\/ \E s \in Slots : DeliveryStep(s)
             \/ organization_events_open(MaxSubs, Callers \cup {None})
             \/ \E queue \in Queues :
                  \/ organization_events_yield(queue)
                  \/ organization_events_next(queue)
                  \/ organization_events_cancelled(queue)
                  \/ organization_events_closed(queue)]_vars

\* SpecSubscribe with the scheduling of the event loop and of the consumer:
\* a generator whose queue.get() can return is resumed, and a consumer that
\* was handed an event asks for the next one unless it closes the generator
SpecLive ==
  /\ SpecSubscribe
  /\ \A queue \in Queues :
        /\ WF_vars(organization_events_yield(queue))
        /\ WF_vars(organization_events_next(queue))

AuthStep(s) ==
  \/ register_find_one(s) \/ register_insert_one(s)
  \/ register_rest_find_one(s) \/ register_rest_insert_one(s)
  \/ create_organization_find_one(s) \/ create_organization_insert_one(s)
  \/ handler_not_authenticated(s)

\* registrations, creations of organizations and unauthenticated requests,
\* from the same state
SpecAuth == Init /\ [][\E s \in Slots : AuthStep(s)]_vars

\* the methods of the SubscriptionManager called in any order
SpecHub == Init /\ [][hub_subscribe \/ hub_unsubscribe \/ hub_broadcast]_vars

\* ------------------------------------------------------------ the claims
\* the error taxonomy of a handler's outcome
Kind(message) ==
  CASE message = "OK" -> "OK"
    [] message \in {"Organization not found", "Project not found", "Task not found",
                    "Comment not found"} -> "NotFound"
    [] message = "Access denied" -> "AccessDenied"
    [] message = "Not authenticated" -> "NotAuthenticated"
    [] message \in {"Email already registered", "Organization slug already exists"}
         -> "Conflict"
    [] message = "Invalid credentials" -> "InvalidCredentials"
    [] OTHER -> "Unclassified"

\* the organization an entity was inserted under, by the history of inserts
RECURSIVE RootEver(_)
RootEver(id) == IF id \in DOMAIN parentOf THEN RootEver(parentOf[id]) ELSE id

\* everything a queue has received: what its generator yielded, then what is pending
Received(queue) ==
  [i \in 1..Len(subs[queue].yielded) |->
     [id |-> subs[queue].yielded[i].entity_id, g |-> subs[queue].yielded[i].g]]
  \o [i \in 1..Len(queues[queue]) |->
        [id |-> queues[queue][i].data.id, g |-> queues[queue][i].g]]

EventsOf(queue, serial) ==
  Cardinality({i \in DOMAIN Received(queue) : Received(queue)[i].g.req = serial})

OrgScopedMutations ==
  {"create_project", "update_project", "delete_project", "create_task", "update_task",
   "delete_task", "add_comment"}

\* the target of request r did not resolve, or resolved to an organization
\* the caller does not own
NotOwner(r) == r.g.root = "" \/ Owner(r.g.root) # r.caller.id

\* C1: a mutation by a user who does not own the organization at the root of
\* its target fails with AccessDenied when the target exists and NotFound when
\* the id is bogus, changes nothing in the store and publishes no event.
C1_CrossTenantMutation ==
  (last.op \in OrgScopedMutations /\ NotOwner(last)) =>
     /\ Kind(last.out) = IF last.g.root = "" THEN "NotFound" ELSE "AccessDenied"
     /\ ~last.g.wrote
     /\ last.g.pub = <<>>

\* The part of C1 that does not depend on the kind of the error: such a
\* mutation is rejected, writes nothing and publishes nothing, at every step.
CrossTenantNoEffect ==
  /\ (last.op \in OrgScopedMutations /\ NotOwner(last)) =>
        /\ Kind(last.out) \in {"NotFound", "AccessDenied"}
        /\ ~last.g.wrote /\ last.g.pub = <<>>
  /\ \A s \in Slots :
        (req[s].op \in OrgScopedMutations /\ NotOwner(req[s])) =>
           ~req[s].g.wrote /\ req[s].g.pub = <<>>

\* C3: every queue registered under the organization of a successful mutation
\* since before the mutation started holds exactly one event of that mutation.
C3_ExactlyOneEvent ==
  (last.op \in OrgScopedMutations \cup {"delete_comment"} /\ last.out = "OK") =>
     \A queue \in last.g.subs \cap Registered(connections, last.g.root) :
        EventsOf(queue, last.g.serial) = 1

\* C4: every event a queue registered under organization O has received is
\* the event of an entity whose ownership chain roots at O.
C4_NoForeignEvent ==
  \A queue \in DOMAIN subs :
     \A i \in DOMAIN Received(queue) :
        RootEver(Received(queue)[i].id) = subs[queue].organization_id

\* a queue registered under o1 while a mutation of o2 succeeded and published
C4_Witness ==
  /\ last.out = "OK" /\ last.g.root = "o2" /\ last.g.pub = <<"o2">>
  /\ \E queue \in last.g.subs \cap Registered(connections, "o1") :
        subs[queue].organization_id = "o1"

C8_CascadeDelete ==
  /\ (last.op = "delete_project" /\ last.out = "OK") =>
        /\ find(projects, [id |-> last.arg]) = {}
        /\ find(tasks, [project_id |-> last.arg]) = {}
        /\ \A c \in task_comments : parentOf[c.task_id] # last.arg
  /\ (last.op = "delete_task" /\ last.out = "OK") =>
        /\ find(tasks, [id |-> last.arg]) = {}
        /\ find(task_comments, [task_id |-> last.arg]) = {}

\* C9: a subscription that has ended has no queue left in the registry of
\* its organization.
C9_EndedUnsubscribed ==
  \A queue \in DOMAIN subs :
     subs[queue].pc \in {"cancelled", "closed"} =>
        queue \notin Registered(connections, subs[queue].organization_id)

QueryOps ==
  {"organization", "projects", "project", "tasks", "task", "task_comments",
   "project_stats"}

\* C2: whatever a query returns belongs to an organization its caller owns,
\* and a query ends with a result, NotFound or AccessDenied.
C2_CrossTenantQuery ==
  last.op \in QueryOps =>
     /\ Kind(last.out) \in {"OK", "NotFound", "AccessDenied"}
     /\ \A e \in last.res : Owner(RootEver(e.id)) = last.caller.id

\* C6: no two user records share an email, and a registration of an email
\* that is registered is rejected with Conflict and inserts nothing.
C6_EmailUnique ==
  /\ \A i, j \in DOMAIN users : users[i].email = users[j].email => i = j
  /\ (last.op \in {"register", "register_rest"} /\ last.g.dup) =>
        (Kind(last.out) = "Conflict" /\ ~last.g.wrote)

\* C7: no two organization records share a slug, and a create_organization
\* with an existing slug is rejected with Conflict and inserts nothing.
C7_SlugUnique ==
  /\ \A a, b \in organizations : a.slug = b.slug => a = b
  /\ (last.op = "create_organization" /\ last.g.dup) =>
        (Kind(last.out) = "Conflict" /\ ~last.g.wrote)

\* C10: unsubscribe of a queue that was already removed from its
\* organization's list, or of an organization whose key was never created,
\* raises nothing and leaves the registry as it was.
C10_UnsubscribeIdempotent ==
  (/\ hubCall.op = "unsubscribe"
   /\ \/ hubCall.org_id \notin DOMAIN hubCall.before
      \/ /\ hubCall.home[hubCall.queue] = hubCall.org_id
         /\ hubCall.queue \notin Registered(hubCall.before, hubCall.org_id)) =>
     (hubCall.raised = "" /\ connections = hubCall.before)

\* how many times x occurs in a list
Occurrences(list, x) == Cardinality({i \in DOMAIN list : list[i] = x})

OpenSubs == {queue \in DOMAIN subs : subs[queue].pc \in {"get", "yield"}}

BroadcastToNobody == last' # last /\ last'.g.pub # <<>> /\ last'.g.to = {}

\* C12: a broadcast for an organization with no registered queue changes
\* neither the registry nor any queue, and no queue has ever received an
\* event whose broadcast was invoked before the queue was created by
\* subscribe (queues are numbered in the order of their creation).
C12_NoBuffering ==
  /\ [][BroadcastToNobody => UNCHANGED <<connections, queues>>]_vars
  /\ [](\A queue \in DOMAIN subs :
          \A i \in DOMAIN Received(queue) : Received(queue)[i].g.nq >= queue)

\* a mutation broadcast for an organization while no queue was registered
\* under it, and a subscription opened for that organization afterwards has
\* received nothing
C12_Witness ==
  /\ last.g.pub # <<>> /\ last.g.to = {}
  /\ \E queue \in OpenSubs :
        /\ subs[queue].organization_id = last.g.pub[1]
        /\ Received(queue) = <<>>

\* C13: every queue has received its events in the order in which their
\* broadcasts were invoked, and two queues that received the same two events
\* received them in the same order.
C13_FifoPublishOrder ==
  /\ \A queue \in DOMAIN subs :
        \A i, j \in DOMAIN Received(queue) :
           i < j <=> Received(queue)[i].g.ord < Received(queue)[j].g.ord
  /\ \A q1, q2 \in DOMAIN subs :
        \A i, j \in DOMAIN Received(q1) : \A k, l \in DOMAIN Received(q2) :
           (/\ Received(q1)[i].g.req = Received(q2)[k].g.req
            /\ Received(q1)[j].g.req = Received(q2)[l].g.req) => (i < j <=> k < l)

\* two queues of one organization have both received the events of two
\* broadcasts, and one of them has yielded the first
C13_Witness ==
  \E q1, q2 \in DOMAIN subs :
     /\ q1 # q2
     /\ subs[q1].organization_id = subs[q2].organization_id
     /\ Len(Received(q1)) = 2 /\ Len(Received(q2)) = 2
     /\ Len(subs[q1].yielded) = 1 /\ Len(queues[q1]) = 1

\* operations that reference an entity by id
ChainOps == OrgScopedMutations \cup QueryOps

\* C14: an operation that references an entity and fails, fails with
\* NotFound iff some link of the entity's ownership chain does not resolve,
\* and with AccessDenied iff the chain resolves to an organization that the
\* caller does not own.
C14_NotFoundVsAccessDenied ==
  (last.op \in ChainOps /\ last.out # "OK") =>
     /\ Kind(last.out) = "NotFound" <=> last.g.root = ""
     /\ Kind(last.out) = "AccessDenied" <=>
           (last.g.root # "" /\ Owner(last.g.root) # last.caller.id)

\* a request with a token that authenticates nobody completes in this step
UnauthenticatedCompletes ==
  last' # last /\ last'.op \in AuthenticatedOps /\ last'.g.token \in BadTokens

\* C15: a request of a query or of a mutation other than register and login
\* with a token that authenticates nobody fails with NotAuthenticated in its
\* first step, whatever its argument, never gets past authentication, and
\* its step leaves the store, the registry and the queues unchanged.
C15_NotAuthenticated ==
  /\ []((last.op \in AuthenticatedOps /\ last.g.token \in BadTokens) =>
          /\ Kind(last.out) = "NotAuthenticated"
          /\ ~last.g.wrote /\ last.g.pub = <<>>)
  /\ [](\A s \in Slots :
          req[s].op \in AuthenticatedOps => req[s].g.token \notin BadTokens)
  /\ [][UnauthenticatedCompletes => UNCHANGED <<store, hub>>]_vars

\* delete_project of the existing project p1 with a token that jwt.decode
\* rejects was refused, and p1 is in the store
C15_Witness ==
  /\ last.op = "delete_project" /\ last.arg = "p1"
  /\ last.g.token.kind = "invalid"
  /\ last.out = "Not authenticated"
  /\ find(projects, [id |-> "p1"]) # {}

\* the entity a completed mutation created, changed or deleted
Mutated(r) ==
  IF r.op \in {"create_project", "create_task", "add_comment"}
  THEN IF r.res = {} THEN "" ELSE (CHOOSE e \in r.res : TRUE).id
  ELSE r.arg

\* an update that supplies no field has no store change to apply
HasChange(r) ==
  r.op \in {"update_project", "update_task"} => DOMAIN UpdateData(r.inp) # {}

\* C16: a mutation publishes only after it has applied the store change its
\* event reports, a mutation that fails at authenticate, resolve or authorize
\* changes nothing in the store and publishes nothing, and an event is
\* published to the organization at the root of the mutated entity's chain.
C16_ProtocolOrder ==
  last.op \in OrgScopedMutations =>
     /\ (last.g.pub # <<>> /\ HasChange(last)) => last.g.wrote
     /\ Kind(last.out) \in {"NotAuthenticated", "NotFound", "AccessDenied"} =>
           (~last.g.wrote /\ last.g.pub = <<>>)
     /\ (last.g.pub # <<>> /\ last.out = "OK") =>
           last.g.pub = <<RootEver(Mutated(last))>>

\* slot s applies the update_one of its update in this step
Updates(s, op) ==
  req[s].op = op /\ req[s].pc = "update_one" /\ req'[s] # req[s]

\* document d with the fields the input gives, and every other field as it is
Patched(d, input) ==
  [k \in DOMAIN d |-> IF k \in DOMAIN input /\ input[k] # Null THEN input[k] ELSE d[k]]

SameIdentity(coll, after, parent) ==
  \A e \in after : \E d \in coll :
     d.id = e.id /\ d.created_at = e.created_at /\ d[parent] = e[parent]

\* C17: the update_one of update_task (update_project) changes, in the task
\* (project) of the given id, exactly the fields the input gives, to the
\* values it gives; it changes no other document, and no step of an update
\* changes the id, created_at or project_id (organization_id) of a document.
C17_PartialUpdate ==
  [][/\ \A s \in Slots :
          /\ Updates(s, "update_task") =>
                /\ tasks' = {IF d.id = req[s].arg THEN Patched(d, req[s].inp) ELSE d :
                               d \in tasks}
                /\ projects' = projects
          /\ Updates(s, "update_project") =>
                /\ projects' = {IF d.id = req[s].arg THEN Patched(d, req[s].inp) ELSE d :
                                  d \in projects}
                /\ tasks' = tasks
     /\ (\A s \in Slots : ~Updates(s, "update_task") /\ ~Updates(s, "update_project"))
           => UNCHANGED store
     /\ SameIdentity(tasks, tasks', "project_id")
     /\ SameIdentity(projects, projects', "organization_id")]_vars

\* an update_task of t1 that gave only the status has succeeded: t1 is DONE
\* and has the title, description, assignee and due date it had
C17_Witness ==
  /\ last.op = "update_task" /\ last.out = "OK" /\ last.arg = "t1"
  /\ DOMAIN UpdateData(last.inp) = {"status"}
  /\ \E d \in tasks :
        /\ d.id = "t1" /\ d.status = "DONE" /\ d.title = "t1" /\ d.description = ""
        /\ d.assignee_email = "" /\ d.due_date = Null

\* the request that starts in this step, in slot s
StartsAt(s, op) ==
  /\ nStarted' # nStarted
  /\ FreeSlot(s)
  /\ (IF req'[s].pc # "idle" THEN req'[s] ELSE last').op = op

Started(s) == IF req'[s].pc # "idle" THEN req'[s] ELSE last'

\* C18: delete_comment on an existing comment is decided by authorship alone:
\* the author's request goes on to delete, and its delete removes that comment
\* and nothing else; any other caller is answered AccessDenied in a step that
\* leaves the store as it is, the comment included; after a delete_comment
\* that succeeded the comment is gone, and one that failed changed nothing.
C18_DeleteByAuthor ==
  /\ [][\A s \in Slots :
          /\ StartsAt(s, "delete_comment") =>
                \A comment \in find(task_comments, [id |-> Started(s).arg]) :
                   /\ comment.author_email = Started(s).caller.email
                        <=> Started(s).pc = "delete_one"
                   /\ comment.author_email # Started(s).caller.email
                        <=> (Started(s).pc = "done" /\ Started(s).out = "Access denied")
                   /\ UNCHANGED store
          /\ (Pc(s, "delete_comment", "delete_one") /\ req'[s] # req[s]) =>
                /\ task_comments' = {d \in task_comments : d.id # req[s].arg}
                /\ UNCHANGED <<users, organizations, projects, tasks>>
          /\ (Pc(s, "delete_comment", "return") /\ req'[s] # req[s]) =>
                (last'.out = "OK" /\ UNCHANGED store)]_vars
  /\ [](last.op = "delete_comment" =>
          /\ last.out = "OK" =>
                /\ last.g.wrote
                /\ find(task_comments, [id |-> last.arg]) = {}
          /\ last.out # "OK" => ~last.g.wrote)

\* the author has deleted its comment c1, and the task it was on is still there
C18_Witness ==
  /\ last.op = "delete_comment" /\ last.arg = "c1" /\ last.out = "OK"
  /\ last.caller.email = "a@x.com"
  /\ find(task_comments, [id |-> "c1"]) = {}
  /\ find(tasks, [id |-> "t1"]) # {}

\* the project_stats request that completed last, with nothing started since
\* and nothing in flight: the store is as that request saw it
StatsAtRest == last.op = "project_stats" /\ last.g.serial = nStarted /\ InFlight = 0

ByOwner(r) == find(organizations, [id |-> r.arg, user_id |-> r.caller.id]) # {}

StatsResult == CHOOSE e \in last.res : TRUE

\* the tasks whose project belongs to the organization
TasksOf(organization_id) ==
  {t \in tasks : \E p \in projects :
                    p.id = t.project_id /\ p.organization_id = organization_id}

\* C19: project_stats by the owner of an organization with no project returns
\* zero for the four project counts and the two task counts and a completion
\* rate of 0, and raises nothing, whatever the other organizations hold.
C19_EmptyOrganizationStats ==
  (/\ StatsAtRest
   /\ ByOwner(last)
   /\ find(projects, [organization_id |-> last.arg]) = {}) =>
     /\ last.out = "OK"
     /\ last.res = {ProjectStats(last.arg, <<0, 0, 0, 0>>, 0, 0)}
     /\ StatsResult.completion_rate = 0

\* the second user asked for the statistics of its organization, which has no
\* project, while the first organization has a project with a task
C19_Witness ==
  /\ StatsAtRest /\ last.arg = "o2" /\ last.caller.id = "u2" /\ last.out = "OK"
  /\ find(projects, [organization_id |-> "o2"]) = {}
  /\ TasksOf("o1") # {}

CascadeWrites(r) ==
  CASE r.op = "delete_project" /\ r.pc = "delete_tasks" -> 1
    [] r.op = "delete_project" /\ r.pc = "delete_one" -> 2
    [] r.op = "delete_task" /\ r.pc = "delete_one" -> 1
    [] OTHER -> 0

\* a comment inserted under the task is no longer in the store
CommentsGone(task_id) ==
  \E c \in DOMAIN parentOf :
     parentOf[c] = task_id /\ find(task_comments, [id |-> c]) = {}

\* the cascade of the delete in slot d is half done: the project is there and
\* tasks it found are gone, or a task is there and its comments are gone
PartialCascade(d) ==
  LET r == req[d]
  IN \/ /\ r.op = "delete_project" /\ r.pc = "delete_one"
        /\ find(projects, [id |-> r.arg]) # {}
        /\ \E id \in r.loc.ids : find(tasks, [id |-> id]) = {}
     \/ /\ r.op = "delete_project" /\ r.pc = "delete_tasks"
        /\ \E id \in r.loc.ids : find(tasks, [id |-> id]) # {} /\ CommentsGone(id)
     \/ /\ r.op = "delete_task" /\ r.pc = "delete_one"
        /\ find(tasks, [id |-> r.arg]) # {} /\ CommentsGone(r.arg)

\* C21: while another request is in flight, no delete_project or delete_task
\* has its cascade half done: the store never shows a running request the
\* project without its tasks or a task without its comments, when every
\* change of the store so far is the cascade's.
C21_CascadeAtomic ==
  \A d, o \in Slots :
     (d # o /\ req[o].pc # "idle" /\ nApplied = CascadeWrites(req[d])) =>
        ~PartialCascade(d)

\* C22: when no request is in flight, every task's project_id names a project
\* in the store, every comment's task_id names a task in the store and every
\* project's organization_id names an organization in the store.
C22_NoOrphans ==
  InFlight = 0 =>
     /\ \A t \in tasks : find(projects, [id |-> t.project_id]) # {}
     /\ \A c \in task_comments : find(tasks, [id |-> c.task_id]) # {}
     /\ \A p \in projects : find(organizations, [id |-> p.organization_id]) # {}

\* the subscription names an organization of the store and was opened by
\* nobody, or by a user who does not own that organization
Unentitled(queue) ==
  /\ find(organizations, [id |-> subs[queue].organization_id]) # {}
  /\ \/ subs[queue].caller = None
     \/ Owner(subs[queue].organization_id) # subs[queue].caller.id

\* C23: a subscription opened for an organization by an unauthenticated
\* caller or by a user who does not own it has no queue registered under the
\* organization and receives none of the organization's events.
C23_SubscriptionAccessCheck ==
  \A queue \in DOMAIN subs :
     Unentitled(queue) =>
        /\ queue \notin Registered(connections, subs[queue].organization_id)
        /\ Received(queue) = <<>>

\* the update in slot s publishes its event in this step
PublishesUpdate(s, op) == Pc(s, op, "broadcast") /\ req'[s] # req[s]

\* C24: an update_task or update_project ends with success or with one of the
\* errors of the taxonomy, never with an unclassified failure, and the step
\* that publishes its UPDATED event finds the entity in the store.
C24_UpdateVsDelete ==
  [][/\ (last' # last /\ last'.op \in {"update_task", "update_project"}) =>
          Kind(last'.out) \in {"OK", "NotFound", "AccessDenied", "NotAuthenticated"}
     /\ \A s \in Slots :
          /\ PublishesUpdate(s, "update_task") =>
                find(tasks, [id |-> req[s].arg]) # {}
          /\ PublishesUpdate(s, "update_project") =>
                find(projects, [id |-> req[s].arg]) # {}]_vars

\* the event of request n waits in the queue
Enqueued(queue, n) ==
  /\ queue \in DOMAIN queues
  /\ \E i \in DOMAIN queues[queue] : queues[queue][i].g.req = n

\* the generator of the queue has yielded the event of request n
YieldedOf(queue, n) ==
  /\ queue \in DOMAIN subs
  /\ \E i \in DOMAIN subs[queue].yielded : subs[queue].yielded[i].g.req = n

\* the subscription was cancelled, or closed by its consumer
Ended(queue) == queue \in DOMAIN subs /\ subs[queue].pc \in {"cancelled", "closed"}

\* C25: under fair scheduling an event that a broadcast put on a queue is
\* eventually yielded by that queue's generator unless the subscription ends
\* first; what is yielded carries the type and the entity id of the event at
\* the head of the queue, which are those of the broadcast; and a queue is
\* registered from the step that subscribes it, so that the next broadcast
\* for its organization appends to it.
C25_EventuallyYielded ==
  /\ \A queue \in Queues : \A n \in 1..MaxRequests :
        Enqueued(queue, n) ~> (YieldedOf(queue, n) \/ Ended(queue))
  /\ [][\A queue \in DOMAIN subs :
          Len(subs'[queue].yielded) # Len(subs[queue].yielded) =>
             LET y == subs'[queue].yielded[Len(subs'[queue].yielded)]
                 e == Head(queues[queue])
             IN /\ subs'[queue].yielded = Append(subs[queue].yielded, y)
                /\ queues'[queue] = Tail(queues[queue])
                /\ y.event_type = e.type /\ y.entity_id = e.data.id
                /\ y.organization_id = subs[queue].organization_id]_vars
  /\ [][\A s \in Slots :
          PublishesUpdate(s, "update_task") =>
             \A queue \in DOMAIN queues :
                IF queue \in Registered(connections, req[s].loc.org_id)
                THEN /\ Len(queues'[queue]) = Len(queues[queue]) + 1
                     /\ SubSeq(queues'[queue], 1, Len(queues[queue])) = queues[queue]
                     /\ queues'[queue][Len(queues'[queue])].type = "TASK_UPDATED"
                     /\ queues'[queue][Len(queues'[queue])].data.id = req[s].arg
                     /\ queues'[queue][Len(queues'[queue])].g.req = req[s].g.serial
                ELSE queues'[queue] = queues[queue]]_vars
  /\ [](\A queue \in DOMAIN subs :
          subs[queue].pc \in {"get", "yield"} =>
             queue \in Registered(connections, subs[queue].organization_id))

\* the subscription of o1 is open and its generator has yielded the
\* TASK_UPDATED event of t1 that the first request's broadcast put on its queue
C25_Witness ==
  /\ 1 \in DOMAIN subs /\ ~Ended(1) /\ subs[1].organization_id = "o1"
  /\ YieldedOf(1, 1)
  /\ \E i \in DOMAIN subs[1].yielded :
        /\ subs[1].yielded[i].event_type = "TASK_UPDATED"
        /\ subs[1].yielded[i].entity_id = "t1"
        /\ subs[1].yielded[i].g.req = 1
====
